---- MODULE Spec2Model ----
(***************************************************************************)
(* dev_server: a static-site development server with live reload.          *)
(*                                                                         *)
(*   src/src/http/common.rs   HTTP request/response codec                  *)
(*   src/src/http/server.rs   accept loop, ConnectionPool, handlers        *)
(*   src/src/messaging/mod.rs MessageHub (subscriber set, broadcast)       *)
(*   src/src/files/mod.rs     FileWatcher (notification producer)          *)
(*   src/src/ws/mod.rs        WebSocket handshake key and frame writer     *)
(*                                                                         *)
(* Rust strings and byte vectors are sequences of byte values; Option<T>   *)
(* is a sequence of length 0 (None) or 1 (Some); Result and panics are     *)
(* records with a tag field.                                               *)
(***************************************************************************)
EXTENDS Integers, Sequences, FiniteSets, TLC

----------------------------------------------------------------------------
(* Bounds of the model.                                                    *)

\* connections the accept loop takes in a run of Spec
MaxConns == 2
\* connections the accept loop takes in a run of PoolSpec
MaxPoolConns == 5
\* connections the accept loop takes in a run of ServeSpec
MaxServeConns == 2
\* notifications the watcher emits in a run
MaxNotes == 2

----------------------------------------------------------------------------
(* Generic helpers.                                                        *)

None == <<>>
Some(x) == <<x>>

Min(S) == CHOOSE x \in S : \A y \in S : x <= y
Max(S) == CHOOSE x \in S : \A y \in S : x >= y

Range(s) == {s[i] : i \in DOMAIN s}

\* the elements of s whose index is in keep, in their order
RECURSIVE Filter(_, _, _)
Filter(s, keep, i) ==
    IF i > Len(s) THEN <<>>
    ELSE (IF i \in keep THEN <<s[i]>> ELSE <<>>) \o Filter(s, keep, i + 1)

Reverse(s) == [i \in 1..Len(s) |-> s[Len(s) + 1 - i]]

\* F of the value of e, which is computed once: a `let` of the source
Let(e, F(_)) == CHOOSE res \in {F(v) : v \in {e}} : TRUE

----------------------------------------------------------------------------
(* Byte literals of the source.                                            *)

CR == 13
LF == 10
\* "\r\n"
CRLF == <<13, 10>>
\* ": "
COLON_SP == <<58, 32>>
\* " "
SPACE == <<32>>
\* "HTTP/1.1"
HTTP_1_1 == <<72, 84, 84, 80, 47, 49, 46, 49>>
\* "CONTENT-LENGTH"
CONTENT_LENGTH == <<67, 79, 78, 84, 69, 78, 84, 45, 76, 69, 78, 71, 84, 72>>
\* "SEC-WEBSOCKET-KEY"
SEC_WEBSOCKET_KEY ==
    <<83, 69, 67, 45, 87, 69, 66, 83, 79, 67, 75, 69, 84, 45, 75, 69, 89>>
\* "/ws/notify"
ROUTE_WS_NOTIFY == <<47, 119, 115, 47, 110, 111, 116, 105, 102, 121>>
\* "/", "/index", "/index.html"
ROUTE_ROOT == <<47>>
ROUTE_INDEX == <<47, 105, 110, 100, 101, 120>>
ROUTE_INDEX_HTML == <<47, 105, 110, 100, 101, 120, 46, 104, 116, 109, 108>>

\* the names HttpVerb::from_str matches, each with its variant
VerbNames ==
    { <<"GET", <<71, 69, 84>>>>,
      <<"HEAD", <<72, 69, 65, 68>>>>,
      <<"POST", <<80, 79, 83, 84>>>>,
      <<"PUT", <<80, 85, 84>>>>,
      <<"DELETE", <<68, 69, 76, 69, 84, 69>>>>,
      <<"CONNECT", <<67, 79, 78, 78, 69, 67, 84>>>>,
      <<"PATCH", <<80, 65, 84, 67, 72>>>>,
      <<"OPTIONS", <<79, 80, 84, 73, 79, 78, 83>>>>,
      <<"TRACE", <<84, 82, 65, 67, 69>>>> }

----------------------------------------------------------------------------
(* Results.                                                                *)

Ok(v) == [tag |-> "Ok", value |-> v]
Err(m) == [tag |-> "Err", msg |-> m]
\* the thread unwinds: an index out of bounds, an unwrap of Err, a todo!()
Panic(m) == [tag |-> "Panic", msg |-> m]

----------------------------------------------------------------------------
(* HTTP Message Codec (src/src/http/common.rs).                            *)

\* the size of the read buffer, `[0; 4096]`
BufferSize == 4096

\* str::to_uppercase on ASCII text
to_uppercase(s) ==
    <<>> \o [i \in 1..Len(s) |->
                IF s[i] >= 97 /\ s[i] <= 122 THEN s[i] - 32 ELSE s[i]]

\* String::from_utf8_lossy: ASCII bytes are kept, a byte that is not ASCII
\* becomes U+FFFD (exact for buffers whose non-ASCII bytes are invalid UTF-8)
from_utf8_lossy(bytes) ==
    <<>> \o [i \in 1..Len(bytes) |-> IF bytes[i] < 128 THEN bytes[i] ELSE 65533]

\* str::split(pattern): the pieces between the leftmost non-overlapping
\* occurrences of sep; a text without sep is one piece
RECURSIVE split(_, _)
split(s, sep) ==
    LET n == Len(s)
        m == Len(sep)
    IN  Let({i \in 1..(n - m + 1) : SubSeq(s, i, i + m - 1) = sep}, LAMBDA hits :
            IF hits = {} THEN <<s>>
            ELSE Let(Min(hits), LAMBDA i :
                 Let(SubSeq(s, i + m, n), LAMBDA rest :
                     <<SubSeq(s, 1, i - 1)>> \o split(rest, sep))))

IsDigit(b) == b >= 48 /\ b <= 57

RECURSIVE DecimalValue(_)
DecimalValue(digits) ==
    IF digits = <<>> THEN 0
    ELSE 10 * DecimalValue(SubSeq(digits, 1, Len(digits) - 1))
         + (digits[Len(digits)] - 48)

\* usize, 64 bits wide, in the integers at hand: a value below 2^31 is
\* itself, a value v of the topmost 2^31 is v - 2^64 (its two's complement),
\* and a value between the two has no representation. The number a text of
\* decimal digits denotes, or None when it is above usize::MAX
\* (18446744073709551615), counted in groups of five digits.
usize_from_digits(digits) ==
    Let({i \in DOMAIN digits : digits[i] # 48}, LAMBDA significant :
        IF significant = {} THEN Some(0)
        ELSE Let(SubSeq(digits, Min(significant), Len(digits)), LAMBDA d :
            CASE Len(d) <= 9 -> Some(DecimalValue(d))
              [] Len(d) > 20 -> None
              [] Len(d) = 20 ->
                 LET g1 == DecimalValue(SubSeq(d, 1, 5))
                     g2 == DecimalValue(SubSeq(d, 6, 10))
                     g3 == DecimalValue(SubSeq(d, 11, 15))
                     g4 == DecimalValue(SubSeq(d, 16, 20))
                     below == (37095 - g3) * 100000 + (51616 - g4)
                 IN  CASE g1 > 18446 \/ (g1 = 18446 /\ g2 > 74407) -> None
                       [] g1 = 18446 /\ g2 = 74407 /\ g3 > 37095 -> None
                       [] g1 = 18446 /\ g2 = 74407 /\ g3 <= 37095 /\ g3 >= 16095 ->
                            IF below <= 0 THEN None ELSE Some(0 - below)))

\* str::parse::<usize>: an optional '+', then one or more decimal digits
\* that denote a value up to usize::MAX
parse_usize(v) ==
    LET digits == IF v # <<>> /\ v[1] = 43 THEN Tail(v) ELSE v
    IN  IF digits = <<>> \/ \E i \in DOMAIN digits : ~IsDigit(digits[i])
        THEN None
        ELSE usize_from_digits(digits)

\* HttpVerb::from_str
HttpVerb_from_str(data) ==
    Let(to_uppercase(data), LAMBDA up :
        LET hit == {p \in VerbNames : p[2] = up}
        IN  IF hit = {} THEN Err("Unknown http verb")
            ELSE Ok((CHOOSE p \in hit : TRUE)[1]))

\* HashMap::insert
insert(map, k, v) == (k :> v) @@ map

\* HashMap::new()
EmptyMap == [k \in {} |-> <<>>]

\* the `for i in 1..split_header.len()` loop of parse_from_string, from line i
\* (counted from 1 here) on; acc is <<headers, content_length>>
RECURSIVE parse_header_lines(_, _, _)
parse_header_lines(split_header, i, acc) ==
    IF i > Len(split_header) THEN acc
    ELSE Let(split(split_header[i], COLON_SP), LAMBDA split_item :
             IF Len(split_item) > 1
             THEN LET k == to_uppercase(split_item[1])
                      v == split_item[2]
                      parsed == IF k = CONTENT_LENGTH THEN parse_usize(v) ELSE None
                  IN  Let(<< insert(acc[1], k, v),
                             IF parsed # None THEN parsed[1] ELSE acc[2] >>,
                          LAMBDA next : parse_header_lines(split_header, i + 1, next))
             ELSE parse_header_lines(split_header, i + 1, acc))

\* HttpRequestHeader::parse_from_string
parse_from_string(data) ==
    Let(split(data, CRLF), LAMBDA split_header :
    Let(split(split_header[1], SPACE), LAMBDA split_status_line :
    Let(HttpVerb_from_str(split_status_line[1]), LAMBDA verb :
        IF verb.tag = "Err" THEN verb
        ELSE IF Len(split_status_line) < 3
        THEN Panic("index out of bounds: split_status_line")
        ELSE Let(parse_header_lines(split_header, 2, <<EmptyMap, 0>>), LAMBDA acc :
                 Ok([ route |-> split_status_line[2],
                      verb |-> verb.value,
                      http_version |-> split_status_line[3],
                      content_length |-> acc[2],
                      headers |-> acc[1] ])))))

\* HttpRequestHeader::create_from_buffer: i is the zero-based index of the
\* source, buffer[i + 1] the byte it names
create_from_buffer(buffer) ==
    Let({i \in 0..(Len(buffer) - 1) :
            /\ i > 4
            /\ buffer[i + 1] = LF
            /\ buffer[i] = CR
            /\ buffer[i - 1] = LF
            /\ buffer[i - 2] = CR}, LAMBDA ends :
        IF ends = {} THEN Err("Request header larger than buffer")
        ELSE Let(Min(ends), LAMBDA i :
             Let(from_utf8_lossy(SubSeq(buffer, 1, i)), LAMBDA header :
             Let(parse_from_string(header), LAMBDA http_request :
                 IF http_request.tag # "Ok" THEN http_request
                 ELSE Ok(<<http_request.value, i + 1>>)))))

\* whether the build checks integer arithmetic for overflow (it does under
\* the dev profile and does not under the release profile)
OverflowChecks == BOOLEAN

\* HttpRequest::from_stream, after the single read has filled the buffer, as
\* built with or without overflow checks. The sum is computed for the match,
\* whatever the content length is; an unchecked sum wraps around 2^64.
from_stream_built(buffer, overflow_checks) ==
    Let(create_from_buffer(buffer), LAMBDA r :
        IF r.tag # "Ok" THEN r
        ELSE LET header == r.value[1]
                 body_start_index == r.value[2]
                 end == body_start_index + header.content_length
                 overflows == header.content_length < 0 /\ end >= 0
                 body ==
                     IF header.content_length = 0 THEN Ok(None)
                     ELSE IF end < 0 \/ end > BufferSize THEN Ok(None)
                     ELSE IF end < body_start_index
                     THEN Panic("slice index starts after its end")
                     ELSE Ok(Some(SubSeq(buffer, body_start_index + 1, end)))
             IN  IF overflows /\ overflow_checks
                 THEN Panic("attempt to add with overflow")
                 ELSE IF body.tag # "Ok" THEN body
                 ELSE Ok([header |-> header, body |-> body.value]))

\* HttpRequest::from_stream on a buffer whose Content-Length, added to the
\* offset of the body, stays within usize: the two builds agree
from_stream(buffer) == from_stream_built(buffer, TRUE)

\* the buffer after `stream.read(&mut buffer)` has read the bytes the client
\* sent: the bytes, then the zeroes the buffer was created with
read(bytes) ==
    IF Len(bytes) >= BufferSize THEN SubSeq(bytes, 1, BufferSize)
    ELSE bytes \o [i \in 1..(BufferSize - Len(bytes)) |-> 0]

----------------------------------------------------------------------------
(* Response side of the codec and the literals the handlers use.           *)

\* "Server"
H_Server ==
    <<83, 101, 114, 118, 101, 114>>

\* "Psionic 0.0.1"
V_Psionic ==
    <<80, 115, 105, 111, 110, 105, 99, 32, 48, 46, 48, 46, 49>>

\* "Content-Length"
H_Content_Length ==
    <<67, 111, 110, 116, 101, 110, 116, 45, 76, 101, 110, 103, 116, 104>>

\* "Connection"
H_Connection ==
    <<67, 111, 110, 110, 101, 99, 116, 105, 111, 110>>

\* "Closed"
V_Closed ==
    <<67, 108, 111, 115, 101, 100>>

\* "Content-Type"
H_Content_Type ==
    <<67, 111, 110, 116, 101, 110, 116, 45, 84, 121, 112, 101>>

\* "Upgrade"
H_Upgrade ==
    <<85, 112, 103, 114, 97, 100, 101>>

\* "websocket"
V_websocket ==
    <<119, 101, 98, 115, 111, 99, 107, 101, 116>>

\* "Upgrade"
V_Upgrade ==
    <<85, 112, 103, 114, 97, 100, 101>>

\* "Sec-WebSocket-Accept"
H_Sec_WebSocket_Accept ==
    <<83, 101, 99, 45, 87, 101, 98, 83, 111, 99, 107, 101, 116, 45, 65, 99,
      99, 101, 112, 116>>

\* "Sec-WebSocket-Version"
H_Sec_WebSocket_Version ==
    <<83, 101, 99, 45, 87, 101, 98, 83, 111, 99, 107, 101, 116, 45, 86,
      101, 114, 115, 105, 111, 110>>

\* "13"
V_13 ==
    <<49, 51>>

\* "text/plain"
TEXT_PLAIN ==
    <<116, 101, 120, 116, 47, 112, 108, 97, 105, 110>>

\* "text/html"
TEXT_HTML ==
    <<116, 101, 120, 116, 47, 104, 116, 109, 108>>

\* "text/css"
TEXT_CSS ==
    <<116, 101, 120, 116, 47, 99, 115, 115>>

\* "application/javascript"
APPLICATION_JAVASCRIPT ==
    <<97, 112, 112, 108, 105, 99, 97, 116, 105, 111, 110, 47, 106, 97, 118,
      97, 115, 99, 114, 105, 112, 116>>

\* "image/png"
IMAGE_PNG ==
    <<105, 109, 97, 103, 101, 47, 112, 110, 103>>

\* "image/jpeg"
IMAGE_JPEG ==
    <<105, 109, 97, 103, 101, 47, 106, 112, 101, 103>>

\* ".css"
EXT_CSS ==
    <<46, 99, 115, 115>>

\* ".js"
EXT_JS ==
    <<46, 106, 115>>

\* ".png"
EXT_PNG ==
    <<46, 112, 110, 103>>

\* ".jpg"
EXT_JPG ==
    <<46, 106, 112, 103>>

\* ".jpeg"
EXT_JPEG ==
    <<46, 106, 112, 101, 103>>

\* "Not found"
NOT_FOUND_BODY ==
    <<78, 111, 116, 32, 102, 111, 117, 110, 100>>

\* "</body>"
BODY_CLOSE_TAG ==
    <<60, 47, 98, 111, 100, 121, 62>>

\* "258EAFA5-E914-47DA-95CA-C5AB0DC85B11"
WS_GUID ==
    <<50, 53, 56, 69, 65, 70, 65, 53, 45, 69, 57, 49, 52, 45, 52, 55, 68,
      65, 45, 57, 53, 67, 65, 45, 67, 53, 65, 66, 48, 68, 67, 56, 53, 66,
      49, 49>>

\* "File created"
FILE_CREATED ==
    <<70, 105, 108, 101, 32, 99, 114, 101, 97, 116, 101, 100>>

\* "File updated"
FILE_UPDATED ==
    <<70, 105, 108, 101, 32, 117, 112, 100, 97, 116, 101, 100>>

\* "File removed"
FILE_REMOVED ==
    <<70, 105, 108, 101, 32, 114, 101, 109, 111, 118, 101, 100>>

\* "File renamed"
FILE_RENAMED ==
    <<70, 105, 108, 101, 32, 114, 101, 110, 97, 109, 101, 100>>

\* the `replace` text of inject_script: the reload script, "\n</body>"
RELOAD_SCRIPT ==
    <<60, 115, 99, 114, 105, 112, 116, 62, 118, 97, 114, 32, 119, 115, 32,
      61, 32, 110, 101, 119, 32, 87, 101, 98, 83, 111, 99, 107, 101, 116,
      40, 39, 119, 115, 58, 47, 47, 49, 50, 55, 46, 48, 46, 48, 46, 49, 58,
      56, 48, 56, 48, 47, 119, 115, 47, 110, 111, 116, 105, 102, 121, 39,
      41, 59, 32, 119, 115, 46, 111, 110, 111, 112, 101, 110, 32, 61, 32,
      102, 117, 110, 99, 116, 105, 111, 110, 40, 101, 118, 116, 41, 32,
      123, 32, 99, 111, 110, 115, 111, 108, 101, 46, 108, 111, 103, 40, 39,
      67, 111, 110, 110, 101, 99, 116, 101, 100, 39, 41, 59, 32, 125, 59,
      32, 32, 119, 115, 46, 111, 110, 109, 101, 115, 115, 97, 103, 101, 32,
      61, 32, 102, 117, 110, 99, 116, 105, 111, 110, 32, 40, 101, 118, 116,
      41, 32, 123, 32, 108, 111, 99, 97, 116, 105, 111, 110, 46, 114, 101,
      108, 111, 97, 100, 40, 41, 59, 32, 32, 125, 59, 60, 47, 115, 99, 114,
      105, 112, 116, 62, 10, 60, 47, 98, 111, 100, 121, 62>>


\* format!("{}", n) for an unsigned n
RECURSIVE to_string(_)
to_string(n) ==
    IF n < 10 THEN <<48 + n>>
    ELSE to_string(n \div 10) \o <<48 + (n % 10)>>

\* a loop that would keep the entry a key already has
insert_all_keep(map, more) == map @@ more

\* the `for (k, v) in addition_headers { headers.insert(k, v) }` loop
insert_all(map, more) == more @@ map

\* HttpResponseHeader::create
HttpResponseHeader_create(status, content_type, addition_headers, content_length) ==
    LET headers ==
            insert(insert(insert(insert(EmptyMap,
                H_Server, V_Psionic),
                H_Content_Length, to_string(content_length)),
                H_Connection, V_Closed),
                H_Content_Type, content_type)
    IN  [ http_version |-> HTTP_1_1,
          status |-> status,
          content_length |-> content_length,
          headers |-> insert_all(headers, addition_headers) ]

\* HttpResponse::create
HttpResponse_create(status, content_type, addition_headers, body) ==
    LET len == IF body = None THEN 0 ELSE Len(body[1])
    IN  [ header |->
              HttpResponseHeader_create(status, content_type, addition_headers, len),
          body |-> body ]

----------------------------------------------------------------------------
(* WebSocket Protocol Helper (src/src/ws/mod.rs).                          *)

\* the AND of two bytes, bit by bit
BitAnd ==
    [a \in 0..255 |-> [b \in 0..255 |->
        LET bit(v, i) == (v \div (2 ^ i)) % 2
        IN  bit(a, 0) * bit(b, 0) + 2 * bit(a, 1) * bit(b, 1)
            + 4 * bit(a, 2) * bit(b, 2) + 8 * bit(a, 3) * bit(b, 3)
            + 16 * bit(a, 4) * bit(b, 4) + 32 * bit(a, 5) * bit(b, 5)
            + 64 * bit(a, 6) * bit(b, 6) + 128 * bit(a, 7) * bit(b, 7)]]

\* a 32-bit word is the pair of its 16-bit halves, the upper one first
and32(x, y) ==
    LET and16(a, b) == 256 * BitAnd[a \div 256][b \div 256] + BitAnd[a % 256][b % 256]
    IN  << and16(x[1], y[1]), and16(x[2], y[2]) >>

\* x ^ y: the sum of the two without twice their common bits
xor32(x, y) ==
    Let(and32(x, y), LAMBDA both :
        << x[1] + y[1] - 2 * both[1], x[2] + y[2] - 2 * both[2] >>)

\* u32::wrapping_add
add32(x, y) ==
    << (x[1] + y[1] + ((x[2] + y[2]) \div 65536)) % 65536, (x[2] + y[2]) % 65536 >>

\* u32::rotate_left(n), 0 < n < 32
rotate_left(x, n) ==
    LET h == IF n < 16 THEN x ELSE << x[2], x[1] >>
        k == 2 ^ (n % 16)
        r == 65536 \div k
    IN  << ((h[1] * k) % 65536) + (h[2] \div r), ((h[2] * k) % 65536) + (h[1] \div r) >>

\* Sha1::new(), update(bytes), finalize(): the SHA-1 digest (FIPS 180-4) of
\* the bytes, 20 bytes
Sha1(bytes) ==
    LET bits == 8 * Len(bytes)
        zeroes == (119 - (Len(bytes) % 64)) % 64
        padded == bytes \o <<128>> \o [i \in 1..zeroes |-> 0] \o <<0, 0, 0, 0>>
                  \o << bits \div 16777216, (bits \div 65536) % 256,
                        (bits \div 256) % 256, bits % 256 >>
        word(block, t) ==
            << 256 * padded[64 * block + 4 * t + 1] + padded[64 * block + 4 * t + 2],
               256 * padded[64 * block + 4 * t + 3] + padded[64 * block + 4 * t + 4] >>
        RECURSIVE schedule(_, _)
        schedule(w, n) ==
            IF n = 0 THEN w
            ELSE IF n = 1
            THEN Let(rotate_left(xor32(xor32(w[Len(w) - 2], w[Len(w) - 7]),
                                       xor32(w[Len(w) - 13], w[Len(w) - 15])), 1),
                     LAMBDA next : Append(w, next))
            ELSE Let(schedule(w, n \div 2), LAMBDA half : schedule(half, n - (n \div 2)))
        f(t, b, c, d) ==
            IF t < 20 THEN xor32(and32(b, c), and32(<< 65535 - b[1], 65535 - b[2] >>, d))
            ELSE IF t < 40 \/ t >= 60 THEN xor32(xor32(b, c), d)
            ELSE xor32(xor32(and32(b, c), and32(b, d)), and32(c, d))
        k(t) ==
            IF t < 20 THEN << 23170, 31129 >>
            ELSE IF t < 40 THEN << 28377, 60321 >>
            ELSE IF t < 60 THEN << 36635, 48348 >>
            ELSE << 51810, 49622 >>
        RECURSIVE rounds(_, _, _, _)
        rounds(w, t, n, s) ==
            IF n = 1
            THEN << add32(add32(add32(rotate_left(s[1], 5), f(t, s[2], s[3], s[4])),
                                add32(s[5], k(t))), w[t + 1]),
                    s[1], rotate_left(s[2], 30), s[3], s[4] >>
            ELSE Let(rounds(w, t, n \div 2, s), LAMBDA half :
                     rounds(w, t + (n \div 2), n - (n \div 2), half))
        RECURSIVE blocks(_, _)
        blocks(block, h) ==
            IF 64 * block = Len(padded) THEN h
            ELSE Let(schedule([t \in 1..16 |-> word(block, t - 1)], 64), LAMBDA w :
                 Let(rounds(w, 0, 80, h), LAMBDA s :
                 Let([i \in 1..5 |-> add32(h[i], s[i])], LAMBDA next :
                     blocks(block + 1, next))))
    IN  Let(blocks(0, << <<26437, 8961>>, <<61389, 43913>>, <<39098, 56574>>,
                         <<4146, 21622>>, <<50130, 57840>> >>), LAMBDA h :
            [i \in 1..20 |->
                LET half == h[(i + 3) \div 4][((i - 1) % 4) \div 2 + 1]
                IN  IF i % 2 = 1 THEN half \div 256 ELSE half % 256])

\* base64::encode: the standard alphabet, padded with '='
RECURSIVE base64_encode(_)
base64_encode(bytes) ==
    LET char(i) ==
            IF i < 26 THEN 65 + i
            ELSE IF i < 52 THEN 71 + i
            ELSE IF i < 62 THEN i - 4
            ELSE IF i = 62 THEN 43 ELSE 47
    IN  IF bytes = <<>> THEN <<>>
        ELSE IF Len(bytes) = 1
        THEN << char(bytes[1] \div 4), char((bytes[1] % 4) * 16), 61, 61 >>
        ELSE IF Len(bytes) = 2
        THEN << char(bytes[1] \div 4),
                char((bytes[1] % 4) * 16 + bytes[2] \div 16),
                char((bytes[2] % 16) * 4), 61 >>
        ELSE << char(bytes[1] \div 4),
                char((bytes[1] % 4) * 16 + bytes[2] \div 16),
                char((bytes[2] % 16) * 4 + bytes[3] \div 64),
                char(bytes[3] % 64) >>
             \o base64_encode(SubSeq(bytes, 4, Len(bytes)))

\* base64::encode(hasher.finalize()) after hasher.update(bytes)
base64_sha1(bytes) == base64_encode(Sha1(bytes))

\* a handshake that hashes the key alone
handle_handshake_key_only(key) == base64_sha1(key)

\* ws::handle_handshake
handle_handshake(key) == base64_sha1(key \o WS_GUID)

\* a frame whose second byte has the mask bit set
handle_write_masked(data, length) == <<129, 128 + length>> \o data

\* ws::handle_write: `fin | 1`, `0 | length`, then the data
handle_write(data, length) == <<129, length>> \o data

----------------------------------------------------------------------------
(* Connection handlers (src/src/http/server.rs), as functions of the bytes *)
(* read, of what the file system answers and of whether the write to the   *)
(* socket succeeds.                                                        *)

(* The files under the base path and the requests of the clients.         *)

\* "<html><body>hi</body></html>"
INDEX_DOCUMENT ==
    <<60, 104, 116, 109, 108, 62, 60, 98, 111, 100, 121, 62, 104, 105, 60,
      47, 98, 111, 100, 121, 62, 60, 47, 104, 116, 109, 108, 62>>

\* "a{}"
FILE_BYTES ==
    <<97, 123, 125>>

\* "GET /ws/notify HTTP/1.1\r\nSec-WebSocket-Key: dGhlIHNhbXBsZSBub25jZQ==\r\n\r\n"
REQ_WS_KEY ==
    <<71, 69, 84, 32, 47, 119, 115, 47, 110, 111, 116, 105, 102, 121, 32,
      72, 84, 84, 80, 47, 49, 46, 49, 13, 10, 83, 101, 99, 45, 87, 101, 98,
      83, 111, 99, 107, 101, 116, 45, 75, 101, 121, 58, 32, 100, 71, 104,
      108, 73, 72, 78, 104, 98, 88, 66, 115, 90, 83, 66, 117, 98, 50, 53,
      106, 90, 81, 61, 61, 13, 10, 13, 10>>

\* "GET /ws/notify HTTP/1.1\r\nHost: x\r\n\r\n"
REQ_WS_NO_KEY ==
    <<71, 69, 84, 32, 47, 119, 115, 47, 110, 111, 116, 105, 102, 121, 32,
      72, 84, 84, 80, 47, 49, 46, 49, 13, 10, 72, 111, 115, 116, 58, 32,
      120, 13, 10, 13, 10>>

\* "GET / HTTP/1.1\r\nHost: x\r\n\r\n"
REQ_INDEX ==
    <<71, 69, 84, 32, 47, 32, 72, 84, 84, 80, 47, 49, 46, 49, 13, 10, 72,
      111, 115, 116, 58, 32, 120, 13, 10, 13, 10>>

\* "GET /style.css HTTP/1.1\r\nHost: x\r\n\r\n"
REQ_FILE ==
    <<71, 69, 84, 32, 47, 115, 116, 121, 108, 101, 46, 99, 115, 115, 32,
      72, 84, 84, 80, 47, 49, 46, 49, 13, 10, 72, 111, 115, 116, 58, 32,
      120, 13, 10, 13, 10>>

\* "FOO / HTTP/1.1\r\n\r\n"
REQ_UNKNOWN_VERB ==
    <<70, 79, 79, 32, 47, 32, 72, 84, 84, 80, 47, 49, 46, 49, 13, 10, 13,
      10>>

\* "GET / HTTP/1.1\r\nHost: x"
REQ_NO_HEADER_END ==
    <<71, 69, 84, 32, 47, 32, 72, 84, 84, 80, 47, 49, 46, 49, 13, 10, 72,
      111, 115, 116, 58, 32, 120>>

\* File::open and the reads that follow it
FsOutcomes == {"found", "missing", "unreadable"}

ends_with(s, suffix) ==
    /\ Len(s) >= Len(suffix)
    /\ SubSeq(s, Len(s) - Len(suffix) + 1, Len(s)) = suffix

\* get_content_type
get_content_type(path) ==
    IF ends_with(path, EXT_CSS) THEN TEXT_CSS
    ELSE IF ends_with(path, EXT_JS) THEN APPLICATION_JAVASCRIPT
    ELSE IF ends_with(path, EXT_PNG) THEN IMAGE_PNG
    ELSE IF ends_with(path, EXT_JPG) \/ ends_with(path, EXT_JPEG) THEN IMAGE_JPEG
    ELSE TEXT_PLAIN

\* inject_script: Regex::replace replaces the leftmost match only
inject_script(document) ==
    LET m == Len(BODY_CLOSE_TAG)
    IN  Let({i \in 1..(Len(document) - m + 1) :
                SubSeq(document, i, i + m - 1) = BODY_CLOSE_TAG}, LAMBDA hits :
            IF hits = {} THEN document
            ELSE LET i == Min(hits)
                 IN  SubSeq(document, 1, i - 1) \o RELOAD_SCRIPT
                     \o SubSeq(document, i + m, Len(document)))

\* What a handler job did: how it ended ("closed": it returned and the stream
\* was dropped; "upgraded": it returned after it spawned the pusher, which
\* owns the stream; "panic": the worker thread unwound) and the response it
\* wrote, if any.
Effect(end, written) == [end |-> end, written |-> written]

\* `stream.write(&response.to_bytes()).unwrap()` and the return that follows
write_unwrap(response, write_ok) ==
    IF write_ok THEN Effect("closed", Some(response)) ELSE Effect("panic", None)

\* handle_ws_connection
handle_ws_connection(http_request, write_ok) ==
    IF SEC_WEBSOCKET_KEY \notin DOMAIN http_request.header.headers
    THEN Effect("panic", None)                       \* None => todo!()
    ELSE LET key == http_request.header.headers[SEC_WEBSOCKET_KEY]
             ws_handshake == handle_handshake(key)
             addition_headers ==
                 insert(insert(insert(insert(EmptyMap,
                     H_Upgrade, V_websocket),
                     H_Connection, V_Upgrade),
                     H_Sec_WebSocket_Accept, ws_handshake),
                     H_Sec_WebSocket_Version, V_13)
             response == HttpResponse_create("SwitchingProtocols", TEXT_PLAIN,
                                             addition_headers, None)
         IN  IF write_ok THEN Effect("upgraded", Some(response))
             ELSE Effect("panic", None)                 \* Err(_) => todo!()

\* handle_connection
handle_connection(buffer, fs, write_ok) ==
    Let(from_stream(buffer), LAMBDA r :
        IF r.tag # "Ok" THEN Effect("panic", None)      \* Err(_) => todo!()
        ELSE LET http_request == r.value
                 route == http_request.header.route
             IN  IF route = ROUTE_WS_NOTIFY
                 THEN handle_ws_connection(http_request, write_ok)
                 ELSE IF route \in {ROUTE_ROOT, ROUTE_INDEX, ROUTE_INDEX_HTML}
                 THEN IF fs = "found"
                      THEN write_unwrap(
                               HttpResponse_create("Ok", TEXT_HTML, EmptyMap,
                                   Some(inject_script(INDEX_DOCUMENT))),
                               write_ok)
                      ELSE Effect("panic", None)        \* todo!() or unwrap
                 ELSE IF fs = "found"
                      THEN write_unwrap(
                               HttpResponse_create("Ok", get_content_type(route),
                                   EmptyMap, Some(FILE_BYTES)),
                               write_ok)
                      ELSE IF fs = "missing"
                      THEN write_unwrap(
                               HttpResponse_create("NotFound", TEXT_PLAIN,
                                   EmptyMap, Some(NOT_FOUND_BODY)),
                               write_ok)
                      ELSE Effect("panic", None))       \* read_to_end unwrap

\* the requests clients send in a run
ClientRequests ==
    << REQ_WS_KEY, REQ_WS_NO_KEY, REQ_INDEX, REQ_FILE, REQ_UNKNOWN_VERB,
       REQ_NO_HEADER_END >>

\* the requests for the route /ws/notify among them
UpgradeRequests == {1, 2}
\* an upgrade request and a request that does not parse
PoolRequests == {1, 5}

\* what handle_connection does with each of them, for each answer of the
\* file system and of the socket (a table, so that it is evaluated once)
HandledTable ==
    [t \in (DOMAIN ClientRequests) \X FsOutcomes \X BOOLEAN |->
        Let(read(ClientRequests[t[1]]), LAMBDA buffer :
            handle_connection(buffer, t[2], t[3]))] @@ EmptyMap

Handled(r, fs, write_ok) == HandledTable[<<r, fs, write_ok>>]

----------------------------------------------------------------------------
(* The running server: accept loop, ConnectionPool workers, pushers, the   *)
(* MessageHub and the FileWatcher, one thread each, over mpsc channels.    *)

\* ConnectionPool::new(4)
PoolSize == 4

Workers == 1..PoolSize
Conns == 1..Max({MaxConns, MaxPoolConns, MaxServeConns})
NoteIds == 1..MaxNotes

\* the variants of Notification
NotificationKinds == {"FileCreated", "FileUpdated", "FileRemoved", "FileRenamed"}

VARIABLES
    accepted,        \* connections taken from listener.incoming() so far
    accept_alive,    \* the accept thread has not panicked
    request,         \* request[c]: the bytes client c sent (index of ClientRequests)
    jobs,            \* the pool's job channel: connections whose job is queued
    workers,         \* workers[w]: where worker w is in its loop, and its job
    poisoned,        \* the Mutex around the job receiver is poisoned
    conn,            \* conn[c]: "none", "queued", "handling", "upgraded", "closed"
    responses,       \* responses[c]: the HTTP responses written to c's socket
    frames,          \* frames[c]: the WebSocket frames written to c's socket
    pusher,          \* pusher[c]: "none", "subscribe", "recv", "exited"
    tx,              \* tx[c]: the notifications in c's channel (tx, rx)
    sub_channel,     \* (sub_tx, sub_rx): Subscriptions sent and not yet received
    not_channel,     \* (not_tx, not_rx): notifications sent and not yet received
    hub,             \* the hub thread: pc, the notification broadcast, index i
    subscribers,     \* MessageHub: Vec<Sender<Notification>>
    dead_subs,       \* MessageHub: Vec<usize>
    emitted,         \* notifications the watcher has sent
    \* history, read by the properties only
    subscriptions_sent,  \* [c]: Subscriptions c's pusher has sent
    upgraded_at,         \* [id]: connections upgraded and open when id was emitted
    hub_received,        \* ids in the order the hub received them
    pass,                \* the broadcast pass under way or just finished
    \* the codec on its own (CodecSpec)
    stream_buffer,   \* the buffer of from_stream after its read
    read_result,     \* what from_stream returned for it
    \* one function of the program on its own (MessageSpec, HandlerSpec, FrameSpec)
    input,           \* the arguments the function is called with
    output           \* what the call returned

vars ==
    << accepted, accept_alive, request, jobs, workers, poisoned, conn, responses,
       frames, pusher, tx, sub_channel, not_channel, hub, subscribers, dead_subs,
       emitted, subscriptions_sent, upgraded_at, hub_received, pass,
       stream_buffer, read_result, input, output >>

pool_vars == << accepted, accept_alive, request, jobs, workers, poisoned >>
conn_vars == << conn, responses >>
pusher_vars == << frames, pusher, tx, subscriptions_sent >>
hub_vars == << hub, subscribers, dead_subs, hub_received, pass >>
watcher_vars == << not_channel, emitted, upgraded_at >>
call_vars == << input, output >>
codec_vars == << stream_buffer, read_result, call_vars >>
server_vars == << pool_vars, conn_vars, pusher_vars, hub_vars, watcher_vars, sub_channel >>

Pending == [tag |-> "Pending"]

\* pass: the notification of the pass, the subscribers when it started, the
\* result of each send so far, the connections whose receiver was gone when
\* it started, and whether the removals have been done
NoPass == [note |-> 0, subs |-> <<>>, sent |-> <<>>, closed |-> {}, done |-> FALSE]

ServerInit ==
    /\ accepted = 0
    /\ accept_alive = TRUE
    /\ request = [c \in Conns |-> 0]
    /\ jobs = <<>>
    /\ workers = [w \in Workers |-> [at |-> "lock", job |-> 0]]
    /\ poisoned = FALSE
    /\ conn = [c \in Conns |-> "none"]
    /\ responses = [c \in Conns |-> <<>>]
    /\ frames = [c \in Conns |-> <<>>]
    /\ pusher = [c \in Conns |-> "none"]
    /\ tx = [c \in Conns |-> <<>>]
    /\ sub_channel = <<>>
    /\ not_channel = <<>>
    /\ hub = [pc |-> "try_recv", notification |-> None, i |-> 0]
    /\ subscribers = <<>>
    /\ dead_subs = <<>>
    /\ emitted = 0
    /\ subscriptions_sent = [c \in Conns |-> 0]
    /\ upgraded_at = [n \in NoteIds |-> {}]
    /\ hub_received = <<>>
    /\ pass = NoPass

\* no function is being called on its own
NoCall ==
    /\ input = Pending
    /\ output = Pending

\* no buffer is being read on its own
NoRead ==
    /\ stream_buffer = <<>>
    /\ read_result = Pending

Init ==
    /\ ServerInit
    /\ NoRead
    /\ NoCall

(* ---- accept loop: Server::start, ConnectionPool::execute ---- *)

\* every worker thread has panicked: the job Receiver has been dropped
ReceiverDropped == \A w \in Workers : workers[w].at = "dead"

\* `Ok(stream) => connection_pool.execute(...)`: the job is sent to the pool;
\* the client is one of `limit` clients and sends one of the requests `sent`;
\* `send(job).unwrap()` panics when the Receiver is gone, and the job (with
\* its stream) is dropped
Accept(limit, sent) ==
    /\ accept_alive
    /\ accepted < limit
    /\ \E r \in sent :
        LET c == accepted + 1
        IN  /\ accepted' = c
            /\ request' = [request EXCEPT ![c] = r]
            /\ IF ReceiverDropped
               THEN /\ accept_alive' = FALSE
                    /\ conn' = [conn EXCEPT ![c] = "closed"]
                    /\ jobs' = jobs
               ELSE /\ accept_alive' = TRUE
                    /\ conn' = [conn EXCEPT ![c] = "queued"]
                    /\ jobs' = Append(jobs, c)
    /\ UNCHANGED << workers, poisoned, responses >>
    /\ UNCHANGED << pusher_vars, hub_vars, watcher_vars, sub_channel >>
    /\ UNCHANGED codec_vars

\* `Err(_) => todo!()`: the accept thread panics; the pool's Sender goes
AcceptError ==
    /\ accept_alive
    /\ accept_alive' = FALSE
    /\ UNCHANGED << accepted, request, jobs, workers, poisoned, conn_vars >>
    /\ UNCHANGED << pusher_vars, hub_vars, watcher_vars, sub_channel >>
    /\ UNCHANGED codec_vars

(* ---- Worker::new: `receiver.lock().unwrap().recv().unwrap(); job()` ---- *)

\* a guard that lives until the job has returned
LockHeld_through_job == \E w \in Workers : workers[w].at \in {"recv", "job"}

\* the MutexGuard is a temporary of the `let job = ...;` statement: it is
\* held by the worker that is in recv(), and by no worker that runs a job
LockHeld == \E w \in Workers : workers[w].at = "recv"

\* receiver.lock().unwrap(): blocks while another worker holds the guard;
\* a poisoned lock makes the unwrap panic. The worker threads run the same
\* closure and differ in nothing but their number, so which of the waiting
\* workers obtains the guard is immaterial: the lowest-numbered one does.
WorkerLock(w) ==
    /\ workers[w].at = "lock"
    /\ ~LockHeld
    /\ \A v \in Workers : workers[v].at = "lock" => w <= v
    /\ workers' = [workers EXCEPT ![w].at = IF poisoned THEN "dead" ELSE "recv"]
    /\ UNCHANGED << accepted, accept_alive, request, jobs, poisoned, conn_vars >>
    /\ UNCHANGED << pusher_vars, hub_vars, watcher_vars, sub_channel >>
    /\ UNCHANGED codec_vars

\* .recv().unwrap() under the guard: a queued job is taken and the guard is
\* dropped at the end of the statement; with the queue empty and the Sender
\* gone recv is Err, and the unwrap panics while the guard is held
WorkerRecv(w) ==
    /\ workers[w].at = "recv"
    /\ \/ /\ jobs # <<>>
          /\ workers' = [workers EXCEPT ![w] = [at |-> "job", job |-> Head(jobs)]]
          /\ jobs' = Tail(jobs)
          /\ conn' = [conn EXCEPT ![Head(jobs)] = "handling"]
          /\ poisoned' = poisoned
       \/ /\ jobs = <<>>
          /\ ~accept_alive
          /\ workers' = [workers EXCEPT ![w].at = "dead"]
          /\ poisoned' = TRUE
          /\ UNCHANGED << jobs, conn >>
    /\ UNCHANGED << accepted, accept_alive, request, responses >>
    /\ UNCHANGED << pusher_vars, hub_vars, watcher_vars, sub_channel >>
    /\ UNCHANGED codec_vars

\* a worker that stays with the connection it has upgraded
AfterJob_occupied(worker, end) ==
    IF end = "panic" THEN [at |-> "dead", job |-> 0]
    ELSE IF end = "upgraded" THEN worker
    ELSE [at |-> "lock", job |-> 0]

\* where a worker that was at `worker` is after job() has ended in `end`: a
\* panic unwinds the thread; a return, also the return of an upgrade that left
\* the stream to the pusher thread, takes it back to the head of the loop
AfterJob(worker, end) ==
    IF end = "panic" THEN [at |-> "dead", job |-> 0] ELSE [at |-> "lock", job |-> 0]

\* job(): handle_connection on the worker's thread. An upgrade spawns the
\* pusher thread, which takes the stream, and returns.
WorkerJob(w) ==
    /\ workers[w].at = "job"
    /\ \E fs \in FsOutcomes, write_ok \in BOOLEAN :
        LET c == workers[w].job
            e == Handled(request[c], fs, write_ok)
        IN  /\ workers' = [workers EXCEPT ![w] = AfterJob(workers[w], e.end)]
            /\ responses' = [responses EXCEPT ![c] = @ \o e.written]
            /\ conn' = [conn EXCEPT ![c] =
                            IF e.end = "upgraded" THEN "upgraded" ELSE "closed"]
            /\ pusher' = [pusher EXCEPT ![c] =
                            IF e.end = "upgraded" THEN "subscribe" ELSE @]
    /\ UNCHANGED << accepted, accept_alive, request, jobs, poisoned >>
    /\ UNCHANGED << frames, tx, subscriptions_sent >>
    /\ UNCHANGED << hub_vars, watcher_vars, sub_channel >>
    /\ UNCHANGED codec_vars

(* ---- pusher thread: the loop spawned by handle_ws_connection ---- *)

\* the receiver rx of c's channel exists: the pusher thread owns it
ReceiverOpen(c) == pusher[c] \in {"subscribe", "recv"}

\* `sub_sender.send(Subscription::new(tx.clone())).unwrap()`, the first
\* statement of every iteration of the loop
PusherSubscribe(c) ==
    /\ pusher[c] = "subscribe"
    /\ sub_channel' = Append(sub_channel, c)
    /\ subscriptions_sent' = [subscriptions_sent EXCEPT ![c] = @ + 1]
    /\ pusher' = [pusher EXCEPT ![c] = "recv"]
    /\ UNCHANGED << frames, tx >>
    /\ UNCHANGED << pool_vars, conn_vars, hub_vars, watcher_vars >>
    /\ UNCHANGED codec_vars

\* the text a notification becomes
payload(notification) ==
    CASE notification.kind = "FileCreated" -> FILE_CREATED
      [] notification.kind = "FileUpdated" -> FILE_UPDATED
      [] notification.kind = "FileRemoved" -> FILE_REMOVED
      [] notification.kind = "FileRenamed" -> FILE_RENAMED

\* a channel that would hand over the newest message first
send_front(channel, message) == <<message>> \o channel

\* mpsc: Sender::send puts a message at the back of the channel, and
\* Receiver::recv takes the one at the front
send(channel, message) == Append(channel, message)
recv(channel) == Head(channel)

\* a pusher that also leaves its loop after a write that succeeded
PusherRecv_once(c) ==
    /\ pusher[c] = "recv"
    /\ tx[c] # <<>>
    /\ LET notification == recv(tx[c])
           frame == handle_write(payload(notification), 12)
       IN  \E write_ok \in BOOLEAN :
            /\ frames' = [frames EXCEPT ![c] =
                              IF write_ok
                              THEN Append(@, [note |-> notification.id, bytes |-> frame])
                              ELSE @]
            /\ tx' = [tx EXCEPT ![c] = <<>>]
            /\ pusher' = [pusher EXCEPT ![c] = "exited"]
            /\ conn' = [conn EXCEPT ![c] = "closed"]
    /\ UNCHANGED << pool_vars, responses, subscriptions_sent >>
    /\ UNCHANGED << hub_vars, watcher_vars, sub_channel >>
    /\ UNCHANGED codec_vars

\* `rx.recv()` returns a notification; its frame is written; a failed write
\* breaks the loop, and the thread ends: rx, tx and the stream are dropped
PusherRecv(c) ==
    /\ pusher[c] = "recv"
    /\ tx[c] # <<>>
    /\ LET notification == recv(tx[c])
           frame == handle_write(payload(notification), 12)
       IN  \E write_ok \in BOOLEAN :
            IF write_ok
            THEN /\ frames' = [frames EXCEPT ![c] =
                                 Append(@, [note |-> notification.id, bytes |-> frame])]
                 /\ tx' = [tx EXCEPT ![c] = Tail(@)]
                 /\ pusher' = [pusher EXCEPT ![c] = "subscribe"]
                 /\ conn' = conn
            ELSE /\ frames' = frames
                 /\ tx' = [tx EXCEPT ![c] = <<>>]
                 /\ pusher' = [pusher EXCEPT ![c] = "exited"]
                 /\ conn' = [conn EXCEPT ![c] = "closed"]
    /\ UNCHANGED << pool_vars, responses, subscriptions_sent >>
    /\ UNCHANGED << hub_vars, watcher_vars, sub_channel >>
    /\ UNCHANGED codec_vars

(* ---- FileWatcher: send_message ---- *)

\* the events the watched directory produces in a run: writes and renames
EmittedKinds == {"FileUpdated", "FileRenamed"}

\* a debounced event becomes a Notification on the hub's channel
Emit ==
    /\ emitted < MaxNotes
    /\ \E kind \in EmittedKinds :
        LET id == emitted + 1
        IN  /\ emitted' = id
            /\ not_channel' = Append(not_channel, [id |-> id, kind |-> kind])
            /\ upgraded_at' = [upgraded_at EXCEPT ![id] = {c \in Conns : ReceiverOpen(c)}]
    /\ UNCHANGED << pool_vars, conn_vars, pusher_vars, hub_vars, sub_channel >>
    /\ UNCHANGED codec_vars

(* ---- MessageHub::start: the loop of the hub thread ---- *)

\* `match receiver.try_recv()`: one pending Subscription, if there is one
HubTryRecv ==
    /\ hub.pc = "try_recv"
    /\ IF sub_channel # <<>>
       THEN /\ subscribers' = Append(subscribers, Head(sub_channel))
            /\ sub_channel' = Tail(sub_channel)
       ELSE UNCHANGED << subscribers, sub_channel >>
    /\ hub' = [hub EXCEPT !.pc = "recv_timeout"]
    /\ pass' = NoPass
    /\ UNCHANGED << dead_subs, hub_received >>
    /\ UNCHANGED << pool_vars, conn_vars, pusher_vars, watcher_vars >>
    /\ UNCHANGED codec_vars

\* `notifications.recv_timeout(..)` is Err: nothing arrived within the second
HubTimeout ==
    /\ hub.pc = "recv_timeout"
    /\ not_channel = <<>>
    /\ hub' = [hub EXCEPT !.pc = "try_recv"]
    /\ UNCHANGED << subscribers, dead_subs, hub_received, pass, sub_channel >>
    /\ UNCHANGED << pool_vars, conn_vars, pusher_vars, watcher_vars >>
    /\ UNCHANGED codec_vars

\* `Ok(notification)`: the broadcast pass starts at index 0
HubRecv ==
    /\ hub.pc = "recv_timeout"
    /\ not_channel # <<>>
    /\ hub' = [pc |-> "send", notification |-> Some(Head(not_channel)), i |-> 0]
    /\ not_channel' = Tail(not_channel)
    /\ hub_received' = Append(hub_received, Head(not_channel).id)
    /\ pass' = [ note |-> Head(not_channel).id, subs |-> subscribers, sent |-> <<>>,
                 closed |-> {c \in Conns : ~ReceiverOpen(c)}, done |-> FALSE ]
    /\ UNCHANGED << subscribers, dead_subs, sub_channel, emitted, upgraded_at >>
    /\ UNCHANGED << pool_vars, conn_vars, pusher_vars >>
    /\ UNCHANGED codec_vars

\* one iteration of `for (i, sub) in subscribers.iter().enumerate()`:
\* `sub.send(notification.clone())` is Err when the receiver was dropped
HubSend ==
    /\ hub.pc = "send"
    /\ hub.i < Len(subscribers)
    /\ LET c == subscribers[hub.i + 1]
           ok == ReceiverOpen(c)
       IN  /\ tx' = [tx EXCEPT ![c] = IF ok THEN send(@, hub.notification[1]) ELSE @]
           /\ dead_subs' = IF ok THEN dead_subs ELSE Append(dead_subs, hub.i)
           /\ pass' = [pass EXCEPT !.sent = Append(@, ok)]
    /\ hub' = [hub EXCEPT !.i = @ + 1]
    /\ UNCHANGED << subscribers, hub_received, sub_channel >>
    /\ UNCHANGED << pool_vars, conn_vars, watcher_vars >>
    /\ UNCHANGED << frames, pusher, subscriptions_sent >>
    /\ UNCHANGED codec_vars

\* a removal that takes the element in front whatever the index is
remove_front(vec, index) ==
    IF index >= Len(vec) THEN Panic("removal index out of bounds")
    ELSE Ok(Tail(vec))

\* Vec::remove(index), index counted from 0: panics when index >= len
remove(vec, index) ==
    IF index >= Len(vec) THEN Panic("removal index out of bounds")
    ELSE Ok(SubSeq(vec, 1, index) \o SubSeq(vec, index + 2, Len(vec)))

\* the indexes left in the order the pass found them, lowest first
ascending(indexes) == indexes

\* `dead_subs.reverse()`
reverse(indexes) == Reverse(indexes)

\* `for i in &dead_subs { subscribers.remove(*i); }`
RECURSIVE remove_each(_, _)
remove_each(vec, indexes) ==
    IF indexes = <<>> THEN Ok(vec)
    ELSE LET r == remove(vec, Head(indexes))
         IN  IF r.tag = "Panic" THEN r ELSE remove_each(r.value, Tail(indexes))

\* a pass that forgets the removals
prune_skipped(subs, dead) == Ok(subs)

\* `if dead_subs.len() > 0 { ... }`, after the pass
prune(subs, dead) ==
    IF Len(dead) > 0 THEN remove_each(subs, reverse(dead)) ELSE Ok(subs)

\* the pass is over: the dead subscribers are removed, and the loop starts again
HubPrune ==
    /\ hub.pc = "send"
    /\ hub.i = Len(subscribers)
    /\ LET r == prune(subscribers, dead_subs)
       IN  IF r.tag = "Ok"
           THEN /\ subscribers' = r.value
                /\ dead_subs' = <<>>
                /\ hub' = [pc |-> "try_recv", notification |-> None, i |-> 0]
           ELSE /\ UNCHANGED << subscribers, dead_subs >>
                /\ hub' = [hub EXCEPT !.pc = "dead"]
    /\ pass' = [pass EXCEPT !.done = TRUE]
    /\ UNCHANGED << hub_received, sub_channel >>
    /\ UNCHANGED << pool_vars, conn_vars, pusher_vars, watcher_vars >>
    /\ UNCHANGED codec_vars

----------------------------------------------------------------------------
(* Specifications.                                                         *)

\* Spec: clients that ask for the upgrade, with and without the key, while
\* files change
Next ==
    \/ Accept(MaxConns, UpgradeRequests)
    \/ \E w \in Workers : WorkerLock(w)
    \/ \E w \in Workers : WorkerRecv(w)
    \/ \E w \in Workers : WorkerJob(w)
    \/ \E c \in Conns : PusherSubscribe(c)
    \/ \E c \in Conns : PusherRecv(c)
    \/ Emit
    \/ HubTryRecv
    \/ HubTimeout
    \/ HubRecv
    \/ HubSend
    \/ HubPrune

Spec == Init /\ [][Next]_vars

\* ServeSpec: clients of every kind at the pool, while no file changes
ServeNext ==
    \/ Accept(MaxServeConns, DOMAIN ClientRequests)
    \/ \E w \in Workers : WorkerLock(w)
    \/ \E w \in Workers : WorkerRecv(w)
    \/ \E w \in Workers : WorkerJob(w)

ServeSpec == Init /\ [][ServeNext]_vars

\* PoolSpec: more clients than the pool has workers, each asking for the
\* upgrade or sending an unknown verb, and a listener that can fail
PoolNext ==
    \/ Accept(MaxPoolConns, PoolRequests)
    \/ AcceptError
    \/ \E w \in Workers : WorkerLock(w)
    \/ \E w \in Workers : WorkerRecv(w)
    \/ \E w \in Workers : WorkerJob(w)

PoolSpec == Init /\ [][PoolNext]_vars

----------------------------------------------------------------------------
(* The codec on its own: from_stream applied to one buffer after another.  *)

\* "GET / HTTP/1.1"
LINE_GET_ROOT ==
    <<71, 69, 84, 32, 47, 32, 72, 84, 84, 80, 47, 49, 46, 49>>

\* "POST /upload HTTP/1.1"
LINE_POST_UPLOAD ==
    <<80, 79, 83, 84, 32, 47, 117, 112, 108, 111, 97, 100, 32, 72, 84, 84,
      80, 47, 49, 46, 49>>

\* "FOO / HTTP/1.1"
LINE_FOO ==
    <<70, 79, 79, 32, 47, 32, 72, 84, 84, 80, 47, 49, 46, 49>>

\* "GET /"
LINE_NO_VERSION ==
    <<71, 69, 84, 32, 47>>

\* "X"
LINE_X ==
    <<88>>

\* the status lines of the requests read
StatusLines ==
    { LINE_GET_ROOT, LINE_POST_UPLOAD, LINE_FOO, LINE_NO_VERSION, LINE_X,
      \* "GET"
      <<71, 69, 84>> }

\* the values of the Content-Length header of the requests read:
\* "0", "3", "+3", "abc", "4049", "4050", "4056", "4057", "5000"
LengthValues ==
    { <<48>>,
      <<51>>,
      <<43, 51>>,
      <<97, 98, 99>>,
      <<52, 48, 52, 57>>,
      <<52, 48, 53, 48>>,
      <<52, 48, 53, 54>>,
      <<52, 48, 53, 55>>,
      <<53, 48, 48, 48>>,
      \* "18446744073709551615" (usize::MAX), "18446744073709551616",
      \* "18446744073709546616" (usize::MAX - 4999)
      <<49, 56, 52, 52, 54, 55, 52, 52, 48, 55, 51, 55, 48, 57, 53, 53, 49, 54, 49, 53>>,
      <<49, 56, 52, 52, 54, 55, 52, 52, 48, 55, 51, 55, 48, 57, 53, 53, 49, 54, 49, 54>>,
      <<49, 56, 52, 52, 54, 55, 52, 52, 48, 55, 51, 55, 48, 57, 53, 52, 54, 54, 49, 54>> }

\* the header lines of the requests read: none, or a Content-Length
LengthHeaders ==
    {<<>>} \cup {H_Content_Length \o COLON_SP \o v \o CRLF : v \in LengthValues}

\* "abc"
BODY_ABC ==
    <<97, 98, 99>>

\* the bytes clients send: a status line, the header lines, the empty line
\* or not, a body or not
CodecInputs ==
    { line \o CRLF \o header \o blank \o body :
        line \in StatusLines, header \in LengthHeaders,
        blank \in {CRLF, <<>>}, body \in {<<>>, BODY_ABC} }

CodecInit ==
    /\ ServerInit
    /\ stream_buffer \in {read(bytes) : bytes \in CodecInputs}
    /\ read_result = Pending
    /\ NoCall

\* HttpRequest::from_stream on the buffer read
ReadRequest ==
    /\ read_result = Pending
    /\ \E overflow_checks \in OverflowChecks :
          read_result' = from_stream_built(stream_buffer, overflow_checks)
    /\ UNCHANGED << stream_buffer, call_vars, server_vars >>

CodecNext == ReadRequest

CodecSpec == CodecInit /\ [][CodecNext]_vars

----------------------------------------------------------------------------
(* Requests built by the program: HttpRequest::create, to_bytes, and the   *)
(* bytes read back by from_stream.                                         *)

\* HttpVerb::get_str
HttpVerb_get_str(verb) == (CHOOSE p \in VerbNames : p[1] = verb)[2]

\* HttpRequestHeader::create
HttpRequestHeader_create(route, verb, content_type, addition_headers, content_length) ==
    LET headers ==
            insert(insert(insert(insert(EmptyMap,
                H_Server, V_Psionic),
                H_Content_Length, to_string(content_length)),
                H_Connection, V_Closed),
                H_Content_Type, content_type)
    IN  [ route |-> route,
          verb |-> verb,
          http_version |-> HTTP_1_1,
          content_length |-> content_length,
          headers |-> insert_all(headers, addition_headers) ]

\* HttpRequest::create
HttpRequest_create(route, verb, content_type, addition_headers, body) ==
    LET len == IF body = None THEN 0 ELSE Len(body[1])
    IN  [ header |->
              HttpRequestHeader_create(route, verb, content_type, addition_headers, len),
          body |-> body ]

\* the orders in which `for header in &self.headers` can visit the entries of
\* a HashMap: every order of its keys
IterationOrders(map) ==
    LET keys == DOMAIN map
        n == Cardinality(keys)
    IN  {<<>> \o f : f \in {g \in [1..n -> keys] :
                                \A i, j \in 1..n : i # j => g[i] # g[j]}}

\* the `for header in &self.headers` loop of get_string, from the i-th entry
\* of the iteration order on
RECURSIVE push_headers(_, _, _)
push_headers(headers, order, i) ==
    IF i > Len(order) THEN <<>>
    ELSE order[i] \o COLON_SP \o headers[order[i]] \o CRLF
         \o push_headers(headers, order, i + 1)

\* HttpRequestHeader::get_string, the map iterated in the given order
HttpRequestHeader_get_string(header, order) ==
    HttpVerb_get_str(header.verb) \o SPACE \o header.route \o SPACE
    \o header.http_version \o CRLF
    \o push_headers(header.headers, order, 1)
    \o CRLF

\* HttpRequest::to_bytes; HttpRequestHeader::to_bytes is the bytes of
\* get_string
HttpRequest_to_bytes(http_request, order) ==
    HttpRequestHeader_get_string(http_request.header, order)
    \o (IF http_request.body # None THEN http_request.body[1] ELSE <<>>)

\* the arguments of HttpRequest::create: the route "/" or "/upload"; each
\* verb of HttpVerb; no additional header, the caller's own "X-Trace": "7",
\* or "Content-Length": "7", which names a standard header; no body, an
\* empty one, "abc", or one as long as the buffer of from_stream
MessageInputs ==
    [ route : {ROUTE_ROOT, <<47, 117, 112, 108, 111, 97, 100>>},
      verb : {p[1] : p \in VerbNames},
      content_type : {TEXT_PLAIN},
      addition_headers :
          { EmptyMap,
            (<<88, 45, 84, 114, 97, 99, 101>> :> <<55>>) @@ EmptyMap,
            (H_Content_Length :> <<55>>) @@ EmptyMap },
      body : { None, Some(<<>>), Some(BODY_ABC),
               Some(<<>> \o [i \in 1..BufferSize |-> 97]) } ]

MessageInit ==
    /\ ServerInit
    /\ NoRead
    /\ input \in MessageInputs
    /\ output = Pending

\* HttpRequest::create, then to_bytes, then from_stream on a connection the
\* bytes were written to
RoundTrip ==
    /\ output = Pending
    /\ \E order \in IterationOrders(
            HttpRequest_create(input.route, input.verb, input.content_type,
                               input.addition_headers, input.body).header.headers) :
          output' =
            Let(HttpRequest_create(input.route, input.verb, input.content_type,
                                   input.addition_headers, input.body),
                LAMBDA created :
            Let(HttpRequest_to_bytes(created, order), LAMBDA sent :
            Let(read(sent), LAMBDA filled :
                [ created |-> created,
                  sent |-> sent,
                  received |-> from_stream(filled) ])))
    /\ UNCHANGED << input, stream_buffer, read_result, server_vars >>

MessageNext == RoundTrip

MessageSpec == MessageInit /\ [][MessageNext]_vars

----------------------------------------------------------------------------
(* handle_connection on its own: one request, one answer of the file       *)
(* system, one answer of the socket.                                       *)

\* HttpStatus::get_code
HttpStatus_get_code(status) ==
    CASE status = "SwitchingProtocols" -> 101
      [] status = "Ok" -> 200
      [] status = "BadRequest" -> 400
      [] status = "Unauthorized" -> 401
      [] status = "NotFound" -> 404
      [] status = "MethodNotAllowed" -> 405
      [] status = "InternalError" -> 500

\* "/style.css"
ROUTE_STYLE_CSS ==
    <<47, 115, 116, 121, 108, 101, 46, 99, 115, 115>>

\* "/app.js"
ROUTE_APP_JS ==
    <<47, 97, 112, 112, 46, 106, 115>>

\* "/logo.png"
ROUTE_LOGO_PNG ==
    <<47, 108, 111, 103, 111, 46, 112, 110, 103>>

\* "/photo.jpg"
ROUTE_PHOTO_JPG ==
    <<47, 112, 104, 111, 116, 111, 46, 106, 112, 103>>

\* "/photo.jpeg"
ROUTE_PHOTO_JPEG ==
    <<47, 112, 104, 111, 116, 111, 46, 106, 112, 101, 103>>

\* "dGhlIHNhbXBsZSBub25jZQ=="
CLIENT_KEY ==
    <<100, 71, 104, 108, 73, 72, 78, 104, 98, 88, 66, 115, 90, 83, 66, 117,
      98, 50, 53, 106, 90, 81, 61, 61>>

\* a request, what File::open and the reads answer, whether the write to the
\* socket succeeds. The first token is "GET", "POST" or "FOO". The routes
\* are the upgrade route, the three index routes, a file of each extension
\* get_content_type knows, "/notes.txt", and "/ws/notify/" and "/index.htm",
\* a byte away from a matched route. The header line is "Host: x" or
\* "Sec-WebSocket-Key: dGhlIHNhbXBsZSBub25jZQ==".
HandlerInputs ==
    [ token : {<<71, 69, 84>>, <<80, 79, 83, 84>>, <<70, 79, 79>>},
      route :
          { ROUTE_WS_NOTIFY, ROUTE_ROOT, ROUTE_INDEX, ROUTE_INDEX_HTML,
            ROUTE_STYLE_CSS, ROUTE_APP_JS, ROUTE_LOGO_PNG, ROUTE_PHOTO_JPG,
            ROUTE_PHOTO_JPEG,
            <<47, 110, 111, 116, 101, 115, 46, 116, 120, 116>>,
            <<47, 119, 115, 47, 110, 111, 116, 105, 102, 121, 47>>,
            <<47, 105, 110, 100, 101, 120, 46, 104, 116, 109>> },
      line :
          { <<72, 111, 115, 116, 58, 32, 120>> \o CRLF,
            <<83, 101, 99, 45, 87, 101, 98, 83, 111, 99, 107, 101, 116, 45,
              75, 101, 121>> \o COLON_SP \o CLIENT_KEY \o CRLF },
      fs : FsOutcomes,
      write_ok : BOOLEAN ]

\* the bytes the client sends
RequestBytes(token, route, line) ==
    token \o SPACE \o route \o SPACE \o HTTP_1_1 \o CRLF \o line \o CRLF

HandlerInit ==
    /\ ServerInit
    /\ NoRead
    /\ input \in HandlerInputs
    /\ output = Pending

\* handle_connection on the connection of the client; the request from_stream
\* returns inside it is kept next to what the handler did
HandleConnection ==
    /\ output = Pending
    /\ output' =
          Let(read(RequestBytes(input.token, input.route, input.line)),
              LAMBDA filled :
                  [ parsed |-> from_stream(filled),
                    effect |-> handle_connection(filled, input.fs, input.write_ok) ])
    /\ UNCHANGED << input, stream_buffer, read_result, server_vars >>

HandlerNext == HandleConnection

HandlerSpec == HandlerInit /\ [][HandlerNext]_vars

----------------------------------------------------------------------------
(* ws::handle_write on its own.                                            *)

\* the greatest value of `length: u8`
U8_MAX == 255

\* the calls of handle_write: a payload of every length a u8 can declare
\* (the letters A to Z, over and over), declared with its length, and the
\* four texts the pusher sends
FrameInputs ==
    {[data |-> <<>> \o [i \in 1..n |-> 65 + (i % 26)], length |-> n] :
        n \in 0..U8_MAX}
    \cup {[data |-> text, length |-> 12] :
              text \in {FILE_CREATED, FILE_UPDATED, FILE_REMOVED, FILE_RENAMED}}

\* the call returned v
Returned(v) == [tag |-> "Returned", value |-> v]

FrameInit ==
    /\ ServerInit
    /\ NoRead
    /\ input \in FrameInputs
    /\ output = Pending

\* ws::handle_write(&mut data, length)
HandleWrite ==
    /\ output = Pending
    /\ output' = Returned(handle_write(input.data, input.length))
    /\ UNCHANGED << input, stream_buffer, read_result, server_vars >>

FrameNext == HandleWrite

FrameSpec == FrameInit /\ [][FrameNext]_vars

----------------------------------------------------------------------------
(* Properties.                                                             *)

\* the 101 response is among the responses written to c
Wrote101(c) ==
    \E i \in DOMAIN responses[c] : responses[c][i].header.status = "SwitchingProtocols"

\* C1: a connection that completes the upgrade sends exactly one Subscription
\* in its whole lifetime: none before the 101 response is written, one before
\* the first notification is received, and none after a notification has been
\* received.
C1_SubscribedExactlyOnce ==
    \A c \in Conns :
        /\ subscriptions_sent[c] <= 1
        /\ subscriptions_sent[c] > 0 => Wrote101(c)
        /\ frames[c] # <<>> => subscriptions_sent[c] = 1

\* the entries of the pass to which the notification was sent
PassOpen == {i \in DOMAIN pass.subs : pass.sent[i]}

\* the copies of notification id that have reached c: in its channel or
\* written to its socket
Copies(c, id) ==
    Cardinality({i \in DOMAIN tx[c] : tx[c][i].id = id})
    + Cardinality({i \in DOMAIN frames[c] : frames[c][i].note = id})

\* C2: after one broadcast pass over the subscriber set, the removal has not
\* indexed outside the set, every entry was tried once, the entries whose
\* receiver was closed are gone and the others are left in their order, and
\* a connection whose receiver is open has one copy of the notification for
\* each of its entries.
C2_BroadcastPassPrunesClosed ==
    pass.done =>
        /\ hub.pc # "dead"
        /\ Len(pass.sent) = Len(pass.subs)
        /\ subscribers = Filter(pass.subs, PassOpen, 1)
        /\ \A i \in DOMAIN pass.subs : pass.subs[i] \in pass.closed => i \notin PassOpen
        /\ \A c \in Conns :
              ReceiverOpen(c) =>
                  Copies(c, pass.note)
                      = Cardinality({i \in DOMAIN pass.subs : pass.subs[i] = c})

\* a pass over three entries has ended, with open and closed entries in it
C2_Witness ==
    /\ pass.done
    /\ Len(pass.subs) = 3
    /\ PassOpen # {}
    /\ PassOpen # DOMAIN pass.subs

\* C3: the hub never broadcasts a notification to a subscriber set that lacks
\* a client that had completed the handshake when the notification was
\* emitted and is still connected.
C3_BroadcastReachesUpgradedClients ==
    hub.pc = "send" =>
        \A c \in upgraded_at[hub.notification[1].id] :
            ReceiverOpen(c) => \E i \in DOMAIN subscribers : subscribers[i] = c

\* the place of notification id in the order the hub received notifications
HubOrder(id) == CHOOSE i \in DOMAIN hub_received : hub_received[i] = id

\* the notifications that have reached c, in the order they reach its socket:
\* those written, then those waiting in its channel
Reached(c) ==
    [i \in DOMAIN frames[c] |-> frames[c][i].note]
    \o [i \in DOMAIN tx[c] |-> tx[c][i].id]

\* C4: the notifications reach each subscriber in the order the hub received
\* them.
C4_DeliveryInHubOrder ==
    \A c \in Conns :
        \A i, j \in DOMAIN Reached(c) :
            i < j => HubOrder(Reached(c)[i]) <= HubOrder(Reached(c)[j])

\* the frames of two notifications have been written to one socket
C4_Witness ==
    \E c \in Conns :
        \E i, j \in DOMAIN frames[c] : frames[c][i].note # frames[c][j].note

\* what the codec returns for each of the requests clients send
ParsedTable ==
    [r \in DOMAIN ClientRequests |->
        Let(read(ClientRequests[r]), LAMBDA buffer : from_stream(buffer))] @@ EmptyMap

\* the requests the codec fails to parse
ParseFailures == {r \in DOMAIN ClientRequests : ParsedTable[r].tag # "Ok"}

\* the requests to /ws/notify that carry no SEC-WEBSOCKET-KEY header
KeylessUpgrades ==
    {r \in DOMAIN ClientRequests :
        /\ ParsedTable[r].tag = "Ok"
        /\ ParsedTable[r].value.header.route = ROUTE_WS_NOTIFY
        /\ SEC_WEBSOCKET_KEY \notin DOMAIN ParsedTable[r].value.header.headers}

\* the only response written to c is a 400 Bad Request
Answered400(c) ==
    /\ Len(responses[c]) = 1
    /\ responses[c][1].header.status = "BadRequest"

\* C5: when the request of an accepted connection fails to parse, the handler
\* writes a 400 Bad Request response to it and the connection is closed.
C5_ParseFailureAnswered400 ==
    \A c \in Conns :
        (request[c] \in ParseFailures /\ conn[c] \notin {"none", "queued", "handling"})
            => (conn[c] = "closed" /\ Answered400(c))

\* C6: a request to /ws/notify without the SEC-WEBSOCKET-KEY header is
\* answered with 400 Bad Request; no 101 response is written, no Subscription
\* is registered and no pusher is started for it.
C6_KeylessUpgradeAnswered400 ==
    \A c \in Conns :
        (request[c] \in KeylessUpgrades /\ conn[c] \notin {"none", "queued", "handling"})
            => /\ Answered400(c)
               /\ ~Wrote101(c)
               /\ subscriptions_sent[c] = 0
               /\ pusher[c] = "none"

\* C7: whatever the accepted connections were, every worker of the pool is
\* alive and the accept loop can still submit jobs.
C7_PoolKeepsItsWorkers ==
    /\ \A w \in Workers : workers[w].at # "dead"
    /\ accept_alive

\* the connections whose handler job is running
Handling == {c \in Conns : conn[c] = "handling"}

\* C8 (as stated): an open upgraded WebSocket connection occupies a pool
\* worker for its whole lifetime.
C8_UpgradedConnectionHoldsWorker ==
    \A c \in Conns :
        (conn[c] = "upgraded" /\ ReceiverOpen(c))
            => \E w \in Workers : workers[w] = [at |-> "job", job |-> c]

\* C8 (amended): at most PoolSize handler jobs run at the same time, each on
\* a worker of its own; an upgraded connection occupies no worker once its
\* handler has spawned the pusher thread and returned.
C8_UpgradedConnectionFreesWorker ==
    /\ Cardinality(Handling) <= PoolSize
    /\ \A c \in Conns :
          c \in Handling <=> \E w \in Workers : workers[w] = [at |-> "job", job |-> c]
    /\ \A c \in Conns :
          conn[c] = "upgraded" => \A w \in Workers : workers[w].job # c

\* PoolSize upgraded connections are open while the job of one more runs
C8_Witness ==
    /\ Cardinality({c \in Conns : conn[c] = "upgraded" /\ ReceiverOpen(c)}) = PoolSize
    /\ Handling # {}

\* C9: a job submitted to the pool is not lost and is taken by one worker
\* only: while it is queued it is in the queue once and a worker is left to
\* take it, and no two workers run the same job.
C9_QueuedJobsAreExecuted ==
    /\ \A c \in Conns :
          conn[c] = "queued" =>
              /\ Cardinality({i \in DOMAIN jobs : jobs[i] = c}) = 1
              /\ \E w \in Workers : workers[w].at # "dead"
    /\ \A v, w \in Workers :
          (workers[v].at = "job" /\ workers[w].at = "job" /\ v # w)
              => workers[v].job # workers[w].job

\* C10: from_stream returns the error BodyTooLarge, and no request, when the
\* declared Content-Length is greater than 0 and the body would end beyond
\* the read buffer.
C10_BodyTooLargeIsSignalled ==
    read_result # Pending =>
        Let(create_from_buffer(stream_buffer), LAMBDA parsed :
            ( /\ parsed.tag = "Ok"
              /\ parsed.value[1].content_length > 0
              /\ parsed.value[2] + parsed.value[1].content_length > BufferSize )
                => read_result = Err("BodyTooLarge"))

\* the body of a request and its content_length agree
BodyMatchesLength(http_request) ==
    /\ http_request.body # None
          => Len(http_request.body[1]) = http_request.header.content_length
    /\ http_request.header.content_length = 0 => http_request.body = None

\* C11: in every request HttpRequest::create builds, for any body given, a
\* present but empty one included, and in every request from_stream returns,
\* a body that is present is content_length bytes long, and the body is
\* absent when content_length is 0.
C11_BodyPresenceMatchesContentLength ==
    output # Pending =>
        /\ BodyMatchesLength(output.created)
        /\ output.received.tag = "Ok" => BodyMatchesLength(output.received.value)

\* C12: the header parsed from the bytes of a header built from a verb, a
\* route and a version is the header that was built: the same verb, route,
\* version and content length, and the same header mapping, keys and values.
C12_HeaderRoundTrip ==
    output # Pending =>
        /\ output.received.tag = "Ok"
        /\ output.received.value.header.verb = output.created.header.verb
        /\ output.received.value.header.route = output.created.header.route
        /\ output.received.value.header.http_version
              = output.created.header.http_version
        /\ output.received.value.header.content_length
              = output.created.header.content_length
        /\ output.received.value.header.headers = output.created.header.headers

\* the bytes of the body of a request, none when it has no body
BodyBytes(http_request) ==
    IF http_request.body = None THEN <<>> ELSE http_request.body[1]

\* C13: a request created with a body of n bytes, its Content-Length header
\* the one create wrote for n, is read back from its bytes with the same body
\* bytes.
C13_BodyRoundTrip ==
    ( /\ output # Pending
      /\ output.created.header.headers[H_Content_Length]
            = to_string(Len(BodyBytes(output.created))) )
        => /\ output.received.tag = "Ok"
           /\ BodyBytes(output.received.value) = BodyBytes(output.created)

\* the Content-Length entry of the mapping of a header, under whatever case
\* its key is kept, is the decimal text of the content_length field
LengthEntryAgrees(header) ==
    \A k \in DOMAIN header.headers :
        to_uppercase(k) = CONTENT_LENGTH
            => parse_usize(header.headers[k]) = Some(header.content_length)

\* C17: in every header built by create, whatever additional headers the
\* caller gives, and in every header parsed from text, the Content-Length
\* entry of the mapping, when present, denotes the number in the
\* content_length field.
C17_ContentLengthEntryAgreesWithField ==
    output # Pending =>
        /\ LengthEntryAgrees(output.created.header)
        /\ output.received.tag = "Ok"
              => LengthEntryAgrees(output.received.value.header)

\* the buffer holds the sequence CR LF CR LF
HasHeaderEnd(bytes) ==
    \E i \in 4..Len(bytes) : SubSeq(bytes, i - 3, i) = CRLF \o CRLF

\* the first token of the status line: the bytes before the first space of
\* the bytes before the first CR LF
StatusToken(bytes) ==
    Let(Min({i \in 1..(Len(bytes) - 1) : SubSeq(bytes, i, i + 1) = CRLF}), LAMBDA e :
        Let(SubSeq(bytes, 1, e - 1), LAMBDA line :
            split(line, SPACE)[1]))

\* C14: parsing fails with "Request header larger than buffer" for every
\* buffer that holds no CR LF CR LF, and with "Unknown http verb" for every
\* buffer whose status line starts with a token that is none of the nine
\* verbs; no header is returned in either case.
C14_ParseErrors ==
    read_result # Pending =>
        /\ ~HasHeaderEnd(stream_buffer)
              => read_result = Err("Request header larger than buffer")
        /\ ( /\ HasHeaderEnd(stream_buffer)
             /\ HttpVerb_from_str(StatusToken(stream_buffer)).tag = "Err" )
              => read_result = Err("Unknown http verb")

\* the index document with the reload script in front of its "</body>"
ExpectedIndexBody ==
    SubSeq(INDEX_DOCUMENT, 1, 14) \o RELOAD_SCRIPT \o SubSeq(INDEX_DOCUMENT, 22, 28)

\* the Content-Type of the file of a route, by its extension
ExpectedContentType(route) ==
    CASE route = ROUTE_STYLE_CSS -> TEXT_CSS
      [] route = ROUTE_APP_JS -> APPLICATION_JAVASCRIPT
      [] route = ROUTE_LOGO_PNG -> IMAGE_PNG
      [] route \in {ROUTE_PHOTO_JPG, ROUTE_PHOTO_JPEG} -> IMAGE_JPEG
      [] OTHER -> TEXT_PLAIN

\* the response has the status, the Content-Type and the body given
IsResponse(written, status, content_type, body) ==
    /\ written # None
    /\ written[1].header.status = status
    /\ written[1].header.headers[H_Content_Type] = content_type
    /\ written[1].body = Some(body)

\* C15: what the handler does with a request that parsed, on a socket that
\* takes the write, is decided by the route and by whether the file exists:
\* /ws/notify goes to the upgrade, where nothing but a 101 is written; /,
\* /index and /index.html are answered 200 with the index document carrying
\* the reload script before "</body>"; any other route is answered 200 with
\* the bytes of the file and the Content-Type of its extension when the file
\* exists, and 404 with a plain-text body when it does not.
C15_OutcomeByRouteAndFile ==
    ( /\ output # Pending
      /\ "parsed" \in DOMAIN output
      /\ output.parsed.tag = "Ok"
      /\ input.write_ok
      /\ input.fs \in {"found", "missing"} )
        => LET route == output.parsed.value.header.route
               written == output.effect.written
           IN  IF route = ROUTE_WS_NOTIFY
               THEN written # None
                        => written[1].header.status = "SwitchingProtocols"
               ELSE IF route \in {ROUTE_ROOT, ROUTE_INDEX, ROUTE_INDEX_HTML}
               THEN IsResponse(written, "Ok", TEXT_HTML, ExpectedIndexBody)
               ELSE IF input.fs = "found"
               THEN IsResponse(written, "Ok", ExpectedContentType(route), FILE_BYTES)
               ELSE IsResponse(written, "NotFound", TEXT_PLAIN, NOT_FOUND_BODY)

\* the request is an upgrade request with a key, on a socket that takes the
\* write
ValidUpgrade ==
    /\ output # Pending
    /\ output.parsed.tag = "Ok"
    /\ output.parsed.value.header.route = ROUTE_WS_NOTIFY
    /\ SEC_WEBSOCKET_KEY \in DOMAIN output.parsed.value.header.headers
    /\ input.write_ok

\* C16: the response to a valid upgrade request has the status 101 and a
\* header map that holds Upgrade: websocket, one Connection entry, whose
\* value is Upgrade, Sec-WebSocket-Accept with the accept key of the key the
\* client sent, Sec-WebSocket-Version: 13, Server, Content-Length: 0 and
\* Content-Type, and nothing else.
C16_UpgradeResponseHeaders ==
    ValidUpgrade =>
        /\ output.effect.written # None
        /\ LET header == output.effect.written[1].header
           IN  /\ HttpStatus_get_code(header.status) = 101
               /\ header.headers =
                     (H_Upgrade :> V_websocket)
                     @@ (H_Connection :> V_Upgrade)
                     @@ (H_Sec_WebSocket_Accept :> base64_sha1(CLIENT_KEY \o WS_GUID))
                     @@ (H_Sec_WebSocket_Version :> V_13)
                     @@ (H_Server :> V_Psionic)
                     @@ (H_Content_Length :> <<48>>)
                     @@ (H_Content_Type :> TEXT_PLAIN)
               /\ Cardinality({k \in DOMAIN header.headers :
                        to_uppercase(k) = to_uppercase(H_Connection)}) = 1
               /\ header.content_length = 0
        /\ output.effect.written[1].body = None

\* a valid upgrade request has been answered
C16_Witness ==
    /\ ValidUpgrade
    /\ output.parsed.value.header.headers[SEC_WEBSOCKET_KEY] = CLIENT_KEY
    /\ output.effect.end = "upgraded"

\* C18: for a payload of n <= 125 bytes declared with the length n,
\* handle_write returns n + 2 bytes: 0x81, then n, its mask bit clear, then
\* the payload as it was given; for "File updated" and 12 these are 0x81,
\* 0x0C and the 12 bytes of the text.
C18_ShortFrame ==
    ( /\ output # Pending
      /\ input.length <= 125
      /\ Len(input.data) = input.length )
        => /\ output.tag = "Returned"
           /\ Len(output.value) = input.length + 2
           /\ output.value[1] = 129
           /\ output.value[2] = input.length
           /\ output.value[2] < 128
           /\ SubSeq(output.value, 3, input.length + 2) = input.data
           /\ input.data = FILE_UPDATED
                 => output.value = << 129, 12, 70, 105, 108, 101, 32, 117, 112,
                                      100, 97, 116, 101, 100 >>

\* the frames of "File updated" and of a payload of 125 bytes have been built
C18_Witness ==
    /\ output # Pending
    /\ output.tag = "Returned"
    /\ \/ input.data = FILE_UPDATED /\ input.length = 12
       \/ Len(input.data) = 125 /\ input.length = 125

\* C19: handle_write called with a declared length of 126 to 255 fails: it
\* returns no frame whose second byte is that length.
C19_LongFrameFails ==
    ( /\ output # Pending
      /\ input.length > 125 )
        => ~( /\ output.tag = "Returned"
              /\ output.value[2] = input.length )

\* C20: a connection whose request is not for the upgrade route, on a socket
\* that takes the write, gets one response from its handler job and is then
\* closed by the return of the job; a connection is left open by its job
\* only after the 101 response was written to it.
C20_OneResponseThenClosed ==
    ( /\ output # Pending
      /\ "effect" \in DOMAIN output
      /\ input.write_ok )
        => /\ input.route # ROUTE_WS_NOTIFY
                 => /\ output.effect.written # None
                    /\ output.effect.end = "closed"
           /\ output.effect.end = "upgraded"
                 => /\ output.effect.written # None
                    /\ HttpStatus_get_code(output.effect.written[1].header.status) = 101

C23_NextPassPrunesTerminated ==
    pass.done =>
        \A c \in pass.closed :
            pusher[c] = "exited" => \A i \in DOMAIN subscribers : subscribers[i] # c

\* a pass has finished that found a sender of a pusher that had ended
C23_Witness ==
    /\ pass.done
    /\ \E c \in pass.closed :
          /\ pusher[c] = "exited"
          /\ \E i \in DOMAIN pass.subs : pass.subs[i] = c

\* C24: the registration step of a hub iteration appends every Subscription
\* that is pending on the channel, in arrival order, before the hub waits for
\* a notification.
C24_AllPendingRegistered ==
    [][(hub.pc = "try_recv" /\ hub'.pc = "recv_timeout")
          => subscribers' = subscribers \o sub_channel]_vars

\* C25: the subscriber set loses a sender only at the end of a broadcast
\* pass, and then exactly the senders whose send failed in that pass: a
\* registration step only appends, a timeout and the sends of a pass leave
\* the set as it is, and the senders whose send succeeded are left in their
\* order.
C25_RemovedOnlyOnFailedSend ==
    [][/\ hub.pc = "try_recv"
            => /\ Len(subscribers') >= Len(subscribers)
               /\ SubSeq(subscribers', 1, Len(subscribers)) = subscribers
       /\ (hub.pc = "recv_timeout" \/ (hub.pc = "send" /\ hub'.pc = "send"))
            => subscribers' = subscribers
       /\ (hub.pc = "send" /\ hub'.pc # "send")
            => subscribers'
                 = Filter(subscribers,
                          {i \in DOMAIN subscribers : pass.sent[i]}, 1)]_vars

\* a pass has removed a sender and has left another
C25_Witness ==
    /\ pass.done
    /\ Len(subscribers) > 0
    /\ Len(subscribers) < Len(pass.subs)

\* C27: the subscriber set holds at most one sender of each connection, and
\* no more senders than connections have been upgraded.
C27_OneSenderPerConnection ==
    /\ \A c \in Conns :
          Cardinality({i \in DOMAIN subscribers : subscribers[i] = c}) <= 1
    /\ Len(subscribers) <= Cardinality({c \in Conns : Wrote101(c)})

\* the space-separated tokens of the status line: of the bytes before the
\* first CR LF
StatusLineTokens(bytes) ==
    Let(Min({i \in 1..(Len(bytes) - 1) : SubSeq(bytes, i, i + 1) = CRLF}), LAMBDA e :
        split(SubSeq(bytes, 1, e - 1), SPACE))

\* C26: for every buffer that holds CR LF CR LF and whose status line has
\* fewer than three space-separated tokens (a verb alone, a verb and a route
\* without a version), reading the request returns an error value; it does
\* not crash.
C26_MalformedStatusLineIsParseError ==
    ( /\ read_result # Pending
      /\ HasHeaderEnd(stream_buffer)
      /\ Len(StatusLineTokens(stream_buffer)) < 3 )
        => read_result.tag = "Err"

\* the workers that run a job
Running == {w \in Workers : workers[w].at = "job"}

\* C28: a worker holds the lock of the job queue while it dequeues and not
\* while it runs the job: at most one worker is dequeuing; while workers run
\* jobs, of whatever duration, and nobody is dequeuing, an idle worker can
\* take the lock (unless it is poisoned) and, with a job queued, the worker
\* that has it can take the job; the jobs that run at the same time are on
\* workers of their own and are never more than PoolSize.
C28_LockHeldOnlyWhileDequeuing ==
    /\ Cardinality({w \in Workers : workers[w].at = "recv"}) <= 1
    /\ ( /\ Running # {}
         /\ ~poisoned
         /\ \E v \in Workers : workers[v].at = "lock"
         /\ \A v \in Workers : workers[v].at # "recv" )
           => ENABLED (\E v \in Workers : WorkerLock(v) /\ workers'[v].at = "recv")
    /\ \A v \in Workers :
          (Running \ {v} # {} /\ workers[v].at = "recv" /\ jobs # <<>>)
             => ENABLED (WorkerRecv(v) /\ workers'[v].at = "job")
    /\ \A v, w \in Running : v # w => workers[v].job # workers[w].job
    /\ Cardinality(Handling) <= PoolSize
    /\ Cardinality(Handling) = Cardinality(Running)

\* PoolSize jobs run at the same time
C28_Witness == Cardinality(Running) = PoolSize /\ Cardinality(Handling) = PoolSize

\* C29: whatever Content-Length the header carries, also one so close to
\* usize::MAX that its sum with the offset of the body wraps around, a
\* request whose header parses is read to a request or to an error value:
\* the buffer is never sliced with an end before the start or beyond the
\* buffer, and the sum never stops the thread.
C29_ContentLengthNeverCrashes ==
    (read_result # Pending /\ create_from_buffer(stream_buffer).tag = "Ok")
        => read_result.tag \in {"Ok", "Err"}

\* C21: the accept key is base64(SHA-1(key ++ "258EAFA5-E914-47DA-95CA-
\* C5AB0DC85B11")), a function of the key alone: a client that sends the key
\* of the example of RFC 6455, "dGhlIHNhbXBsZSBub25jZQ==", is answered
\* Sec-WebSocket-Accept: s3pPLMBiTxaQ9kYGzzhZRbK+xOo=, whatever else its
\* connection meets.
C21_AcceptKeyOfRfcExample ==
    ( /\ ValidUpgrade
      /\ output.parsed.value.header.headers[SEC_WEBSOCKET_KEY]
            = <<100, 71, 104, 108, 73, 72, 78, 104, 98, 88, 66, 115, 90, 83, 66,
                117, 98, 50, 53, 106, 90, 81, 61, 61>> )
        => /\ output.effect.written # None
           /\ H_Sec_WebSocket_Accept \in DOMAIN output.effect.written[1].header.headers
           /\ output.effect.written[1].header.headers[H_Sec_WebSocket_Accept]
                 = <<115, 51, 112, 80, 76, 77, 66, 105, 84, 120, 97, 81, 57, 107,
                     89, 71, 122, 122, 104, 90, 82, 98, 75, 43, 120, 79, 111, 61>>

\* the client of the example has been answered with an accept key
C21_Witness ==
    /\ ValidUpgrade
    /\ output.parsed.value.header.headers[SEC_WEBSOCKET_KEY] = CLIENT_KEY
    /\ output.effect.written # None
    /\ Len(output.effect.written[1].header.headers[H_Sec_WebSocket_Accept]) = 28

====
